---------------------------- MODULE Spec2Model ----------------------------
(***************************************************************************)
(* Model of `fly postgres restart` (package postgres): runRestart,         *)
(* restartMachinesCluster and restartNomadCluster.                         *)
(*                                                                         *)
(* One run is one invocation of runRestart.  Every blocking call to an     *)
(* external collaborator (web API, flaps, agent, node control client) is   *)
(* one atomic step of the run, followed by the local code up to the next   *)
(* external call.  Several runs (independent operators) may execute        *)
(* against the same app; they share only the lease service and the clock.  *)
(***************************************************************************)
EXTENDS Integers, Sequences, FiniteSets, TLC

\* ------------------------------------------------------------------ bounds
MaxNodes == 3     \* largest inventory listed for the app
MaxRuns  == 2     \* invocations of the command that may overlap
TickStep == 20    \* seconds the clock advances in one step
MaxTime  == 40    \* the clock stops advancing here

\* --------------------------------------------------------- program constants
LeaseTTL == 40    \* api.IntPointer(40) handed to GetLease

Nodes == 1..MaxNodes
Runs  == 1..MaxRuns

Range(s) == { s[i] : i \in DOMAIN s }

\* the listings the inventory API may return: up to MaxNodes distinct nodes, in
\* any rotation of their order (node ids are opaque and interchangeable)
Inventories == { s \in UNION { [1..n -> 1..n] : n \in 0..MaxNodes } : s = << >> \/ \E k \in DOMAIN s : \A i \in DOMAIN s : s[i] = ((i + k) % Len(s)) + 1 }

Platforms == { "nomad", "machines", "other" }

VARIABLES
  app,          \* the app GetAppCompact returns: [postgres, platform]
  cluster,      \* the inventory: started machines / active allocations, in API order
  now,          \* wall clock, seconds
  lease,        \* lease service: per node the lease last granted
  nextNonce,    \* lease service: next fresh nonce
  pc,           \* per run: the external call the run is about to make
  result,       \* per run: "none" while running, "ok" for nil, else the error
  out,          \* per run: the listing the run got (out / vms)
  listed,       \* per run: whether the listing call has returned successfully
  idx,          \* per run: position of the range loop over out / vms
  machines,     \* per run: map of lease nonce to machine
  iterated,     \* per run: keys of machines the range loop has already visited
  inflight,     \* per run: nodes whose RestartNodePG call has not returned yet
  dialer,       \* per run: the dialer in scope (0: none, k: the k-th built)
  agents,       \* per run: number of successful agent.Establish calls
  dialers,      \* per run: number of successful agentclient.Dialer calls
  usedDialers,  \* per run: dialers handed to flypg.NewFromInstance
  gate,         \* per run: outcome of the version check ("none", "pass", "fail")
  leaseReq,     \* per run: nodes GetLease was called for, in order
  leases,       \* per run: nodes GetLease succeeded for, in order
  leaseFail,    \* per run: nodes whose GetLease failed
  restarts,     \* per run: nodes RestartNodePG was called for, in order
  restartFail,  \* per run: nodes whose RestartNodePG failed
  cancelled     \* per run: whether the run's context has been cancelled

envVars   == << app, cluster >>
svcVars   == << lease, nextNonce >>
listVars  == << out, listed >>
tunVars   == << dialer, agents, dialers >>
leaseVars == << machines, leaseReq, leases, leaseFail >>
loopVars  == << iterated, inflight, usedDialers, restarts, restartFail >>
vars == << app, cluster, now, lease, nextNonce, pc, result, out, listed, idx, machines, iterated, inflight, dialer, agents, dialers, usedDialers, gate, leaseReq, leases, leaseFail, restarts, restartFail, cancelled >>

EmptyMap == [ k \in {} |-> 0 ]
NoLease  == [ holder |-> 0, nonce |-> 0, expiry |-> 0 ]

Init ==
  /\ app \in [ postgres : BOOLEAN, platform : Platforms ]
  /\ cluster \in Inventories
  /\ now = 0
  /\ lease = [ n \in Nodes |-> NoLease ]
  /\ nextNonce = 1
  /\ pc = [ r \in Runs |-> "idle" ]
  /\ result = [ r \in Runs |-> "none" ]
  /\ out = [ r \in Runs |-> << >> ]
  /\ listed = [ r \in Runs |-> FALSE ]
  /\ idx = [ r \in Runs |-> 0 ]
  /\ machines = [ r \in Runs |-> EmptyMap ]
  /\ iterated = [ r \in Runs |-> {} ]
  /\ inflight = [ r \in Runs |-> {} ]
  /\ dialer = [ r \in Runs |-> 0 ]
  /\ agents = [ r \in Runs |-> 0 ]
  /\ dialers = [ r \in Runs |-> 0 ]
  /\ usedDialers = [ r \in Runs |-> {} ]
  /\ gate = [ r \in Runs |-> "none" ]
  /\ leaseReq = [ r \in Runs |-> << >> ]
  /\ leases = [ r \in Runs |-> << >> ]
  /\ leaseFail = [ r \in Runs |-> {} ]
  /\ restarts = [ r \in Runs |-> << >> ]
  /\ restartFail = [ r \in Runs |-> {} ]
  /\ cancelled = [ r \in Runs |-> FALSE ]

\* ------------------------------------------------------------ control flow
\* return <error> / return nil: the run ends with this result
Return(r, res) ==
  /\ pc' = [ pc EXCEPT ![r] = "done" ]
  /\ result' = [ result EXCEPT ![r] = res ]

\* fall through to the next external call
Goto(r, p) ==
  /\ pc' = [ pc EXCEPT ![r] = p ]
  /\ UNCHANGED result

\* the context handed to a call has not been cancelled: a call made with a
\* cancelled context returns its error without doing anything
CtxLive(r) == ~cancelled[r]

\* the caller cancels the context of a run in progress
Cancel(r) ==
  /\ pc[r] \notin { "idle", "done" }
  /\ ~cancelled[r]
  /\ cancelled' = [ cancelled EXCEPT ![r] = TRUE ]
  /\ UNCHANGED << envVars, now, svcVars, pc, result, listVars, idx, tunVars, gate, leaseVars, loopVars >>

\* an operator invokes the command; runs are numbered in order of invocation
Invoke(r) ==
  /\ pc[r] = "idle"
  /\ \A q \in Runs : q < r => pc[q] # "idle"
  /\ Goto(r, "getApp")
  /\ UNCHANGED << envVars, cancelled, now, svcVars, listVars, idx, tunVars, gate, leaseVars, loopVars >>

\* ---------------------------------------------------------------- runRestart
GetAppErr(r) ==
  /\ pc[r] = "getApp"
  /\ Return(r, "get app")
  /\ UNCHANGED << envVars, cancelled, now, svcVars, listVars, idx, tunVars, gate, leaseVars, loopVars >>

NotPostgres(r) ==
  /\ pc[r] = "getApp"
  /\ CtxLive(r)
  /\ ~app.postgres
  /\ Return(r, "not a Postgres app")
  /\ UNCHANGED << envVars, cancelled, now, svcVars, listVars, idx, tunVars, gate, leaseVars, loopVars >>

\* mutation: the switch has a default case that takes the machines path
SwitchPlatformDefaultMachines(r) ==
  /\ pc[r] = "getApp"
  /\ CtxLive(r)
  /\ app.postgres
  /\ \/ app.platform = "nomad" /\ Goto(r, "nVersion")
     \/ app.platform # "nomad" /\ Goto(r, "mAgent")
  /\ UNCHANGED << envVars, cancelled, now, svcVars, listVars, idx, tunVars, gate, leaseVars, loopVars >>

\* switch app.PlatformVersion
SwitchPlatform(r) ==
  /\ pc[r] = "getApp"
  /\ CtxLive(r)
  /\ app.postgres
  /\ \/ app.platform = "nomad" /\ Goto(r, "nVersion")
     \/ app.platform = "machines" /\ Goto(r, "mAgent")
     \/ app.platform \notin { "nomad", "machines" } /\ Return(r, "ok")
  /\ UNCHANGED << envVars, cancelled, now, svcVars, listVars, idx, tunVars, gate, leaseVars, loopVars >>

\* mutation: the error of hasRequiredVersionOnNomad is dropped
NomadVersionErrIgnored(r) ==
  /\ pc[r] = "nVersion"
  /\ gate' = [ gate EXCEPT ![r] = "fail" ]
  /\ Goto(r, "nStatus")
  /\ UNCHANGED << envVars, cancelled, now, svcVars, listVars, idx, tunVars, leaseVars, loopVars >>

\* hasRequiredVersionOnNomad fails
NomadVersionErr(r) ==
  /\ pc[r] = "nVersion"
  /\ gate' = [ gate EXCEPT ![r] = "fail" ]
  /\ Return(r, "version")
  /\ UNCHANGED << envVars, cancelled, now, svcVars, listVars, idx, tunVars, leaseVars, loopVars >>

NomadVersionOk(r) ==
  /\ pc[r] = "nVersion"
  /\ gate' = [ gate EXCEPT ![r] = "pass" ]
  /\ Goto(r, "nStatus")
  /\ UNCHANGED << envVars, cancelled, now, svcVars, listVars, idx, tunVars, leaseVars, loopVars >>

RunAgentErr(r) ==
  /\ pc[r] = "mAgent"
  /\ Return(r, "can't establish agent")
  /\ UNCHANGED << envVars, cancelled, now, svcVars, listVars, idx, tunVars, gate, leaseVars, loopVars >>

RunAgentOk(r) ==
  /\ pc[r] = "mAgent"
  /\ CtxLive(r)
  /\ agents' = [ agents EXCEPT ![r] = @ + 1 ]
  /\ Goto(r, "mDialer")
  /\ UNCHANGED << envVars, cancelled, now, svcVars, listVars, idx, dialer, dialers, gate, leaseVars, loopVars >>

RunDialerErr(r) ==
  /\ pc[r] = "mDialer"
  /\ Return(r, "can't build tunnel")
  /\ UNCHANGED << envVars, cancelled, now, svcVars, listVars, idx, tunVars, gate, leaseVars, loopVars >>

RunDialerOk(r) ==
  /\ pc[r] = "mDialer"
  /\ CtxLive(r)
  /\ dialers' = [ dialers EXCEPT ![r] = @ + 1 ]
  /\ dialer' = [ dialer EXCEPT ![r] = dialers[r] + 1 ]
  /\ Goto(r, "mLeader")
  /\ UNCHANGED << envVars, cancelled, now, svcVars, listVars, idx, agents, gate, leaseVars, loopVars >>

FetchLeaderErr(r) ==
  /\ pc[r] = "mLeader"
  /\ Return(r, "can't fetch leader")
  /\ UNCHANGED << envVars, cancelled, now, svcVars, listVars, idx, tunVars, gate, leaseVars, loopVars >>

FetchLeaderOk(r) ==
  /\ pc[r] = "mLeader"
  /\ CtxLive(r)
  /\ Goto(r, "mVersion")
  /\ UNCHANGED << envVars, cancelled, now, svcVars, listVars, idx, tunVars, gate, leaseVars, loopVars >>

\* mutation: the error of hasRequiredVersionOnMachines is dropped
MachinesVersionErrIgnored(r) ==
  /\ pc[r] = "mVersion"
  /\ gate' = [ gate EXCEPT ![r] = "fail" ]
  /\ Goto(r, "cFlaps")
  /\ UNCHANGED << envVars, cancelled, now, svcVars, listVars, idx, tunVars, leaseVars, loopVars >>

\* hasRequiredVersionOnMachines fails
MachinesVersionErr(r) ==
  /\ pc[r] = "mVersion"
  /\ gate' = [ gate EXCEPT ![r] = "fail" ]
  /\ Return(r, "version")
  /\ UNCHANGED << envVars, cancelled, now, svcVars, listVars, idx, tunVars, leaseVars, loopVars >>

MachinesVersionOk(r) ==
  /\ pc[r] = "mVersion"
  /\ gate' = [ gate EXCEPT ![r] = "pass" ]
  /\ Goto(r, "cFlaps")
  /\ UNCHANGED << envVars, cancelled, now, svcVars, listVars, idx, tunVars, leaseVars, loopVars >>

\* ------------------------------------------------------ lease service (flaps)
\* a lease is live until its ttl has elapsed
LeaseLive(n) == now < lease[n].expiry

\* the service grants node n to run r under a fresh nonce for ttl seconds
Grant(r, n, ttl) ==
  /\ ~LeaseLive(n)
  /\ lease' = [ lease EXCEPT ![n] = [ holder |-> r, nonce |-> nextNonce, expiry |-> now + ttl ] ]
  /\ nextNonce' = nextNonce + 1

\* run r still holds the lease it was granted on n
HoldsLiveLease(r, n) == lease[n].holder = r /\ LeaseLive(n)

\* ------------------------------------------------------ restartMachinesCluster
Step(r, s) ==
  /\ pc' = [ pc EXCEPT ![r] = s.pc ]
  /\ result' = [ result EXCEPT ![r] = s.result ]

FlapsErr(r) ==
  /\ pc[r] = "cFlaps"
  /\ Return(r, "flaps")
  /\ UNCHANGED << envVars, cancelled, now, svcVars, listVars, idx, tunVars, gate, leaseVars, loopVars >>

FlapsOk(r) ==
  /\ pc[r] = "cFlaps"
  /\ CtxLive(r)
  /\ Goto(r, "cList")
  /\ UNCHANGED << envVars, cancelled, now, svcVars, listVars, idx, tunVars, gate, leaseVars, loopVars >>

ListErr(r) ==
  /\ pc[r] = "cList"
  /\ Return(r, "machines could not be retrieved")
  /\ UNCHANGED << envVars, cancelled, now, svcVars, listVars, idx, tunVars, gate, leaseVars, loopVars >>

\* mutation: the len(out) == 0 check is missing
AfterListNoEmptyCheck(o) ==
  IF Len(o) = 0 THEN [ pc |-> "cAgent", result |-> "none" ]
                ELSE [ pc |-> "cLease", result |-> "none" ]

\* an empty listing skips the lease loop and fails the len(out) == 0 check
AfterList(o) ==
  IF Len(o) = 0 THEN [ pc |-> "done", result |-> "no machines found" ]
                ELSE [ pc |-> "cLease", result |-> "none" ]

ListOk(r) ==
  /\ pc[r] = "cList"
  /\ CtxLive(r)
  /\ out' = [ out EXCEPT ![r] = cluster ]
  /\ listed' = [ listed EXCEPT ![r] = TRUE ]
  /\ idx' = [ idx EXCEPT ![r] = 1 ]
  /\ Step(r, AfterList(cluster))
  /\ UNCHANGED << envVars, cancelled, now, svcVars, tunVars, gate, leaseVars, loopVars >>

\* mutation: every lease is stored under the same key
MapPutSameKey(m, k, v) == [ x \in DOMAIN m \union {0} |-> v ]

\* machines[k] = v
MapPut(m, k, v) == [ x \in DOMAIN m \union {k} |-> IF x = k THEN v ELSE m[x] ]

\* mutation: the lease loop stops after the first machine
AfterLeaseFirstOnly(o, i) == "cAgent"

\* for _, machine := range out: next machine, or on to the tunnel
AfterLease(o, i) == IF i < Len(o) THEN "cLease" ELSE "cAgent"

\* mutation: the error of GetLease is dropped and the loop goes on
GetLeaseErrIgnored(r) ==
  /\ pc[r] = "cLease"
  /\ leaseReq' = [ leaseReq EXCEPT ![r] = Append(@, out[r][idx[r]]) ]
  /\ leaseFail' = [ leaseFail EXCEPT ![r] = { out[r][idx[r]] } ]
  /\ idx' = [ idx EXCEPT ![r] = @ + 1 ]
  /\ Goto(r, AfterLease(out[r], idx[r]))
  /\ UNCHANGED << envVars, cancelled, now, svcVars, listVars, tunVars, gate, machines, leases, loopVars >>

\* mutation: a failed GetLease is tried again
GetLeaseErrRetried(r) ==
  /\ pc[r] = "cLease"
  /\ leaseReq' = [ leaseReq EXCEPT ![r] = Append(@, out[r][idx[r]]) ]
  /\ leaseFail' = [ leaseFail EXCEPT ![r] = { out[r][idx[r]] } ]
  /\ Len(leaseReq[r]) <= Len(out[r])
  /\ Goto(r, "cLease")
  /\ UNCHANGED << envVars, cancelled, now, svcVars, listVars, idx, tunVars, gate, machines, leases, loopVars >>

\* GetLease fails (lease denied, or the call itself failed)
GetLeaseErr(r) ==
  /\ pc[r] = "cLease"
  /\ leaseReq' = [ leaseReq EXCEPT ![r] = Append(@, out[r][idx[r]]) ]
  /\ leaseFail' = [ leaseFail EXCEPT ![r] = { out[r][idx[r]] } ]
  /\ Return(r, "failed to obtain lease")
  /\ UNCHANGED << envVars, cancelled, now, svcVars, listVars, idx, tunVars, gate, machines, leases, loopVars >>

\* mutation: every lease is stored with the first machine of the listing
GetLeaseOkFirstMachine(r) ==
  /\ pc[r] = "cLease"
  /\ CtxLive(r)
  /\ Grant(r, out[r][idx[r]], LeaseTTL)
  /\ machines' = [ machines EXCEPT ![r] = MapPut(@, nextNonce, out[r][1]) ]
  /\ leaseReq' = [ leaseReq EXCEPT ![r] = Append(@, out[r][idx[r]]) ]
  /\ leases' = [ leases EXCEPT ![r] = Append(@, out[r][idx[r]]) ]
  /\ idx' = [ idx EXCEPT ![r] = @ + 1 ]
  /\ Goto(r, AfterLease(out[r], idx[r]))
  /\ UNCHANGED << envVars, cancelled, now, listVars, tunVars, gate, leaseFail, loopVars >>

GetLeaseOk(r) ==
  /\ pc[r] = "cLease"
  /\ CtxLive(r)
  /\ Grant(r, out[r][idx[r]], LeaseTTL)
  /\ machines' = [ machines EXCEPT ![r] = MapPut(@, nextNonce, out[r][idx[r]]) ]
  /\ leaseReq' = [ leaseReq EXCEPT ![r] = Append(@, out[r][idx[r]]) ]
  /\ leases' = [ leases EXCEPT ![r] = Append(@, out[r][idx[r]]) ]
  /\ idx' = [ idx EXCEPT ![r] = @ + 1 ]
  /\ Goto(r, AfterLease(out[r], idx[r]))
  /\ UNCHANGED << envVars, cancelled, now, listVars, tunVars, gate, leaseFail, loopVars >>

ClusterAgentErr(r) ==
  /\ pc[r] = "cAgent"
  /\ Return(r, "can't establish agent")
  /\ UNCHANGED << envVars, cancelled, now, svcVars, listVars, idx, tunVars, gate, leaseVars, loopVars >>

ClusterAgentOk(r) ==
  /\ pc[r] = "cAgent"
  /\ CtxLive(r)
  /\ agents' = [ agents EXCEPT ![r] = @ + 1 ]
  /\ Goto(r, "cDialer")
  /\ UNCHANGED << envVars, cancelled, now, svcVars, listVars, idx, dialer, dialers, gate, leaseVars, loopVars >>

ClusterDialerErr(r) ==
  /\ pc[r] = "cDialer"
  /\ Return(r, "can't build tunnel")
  /\ UNCHANGED << envVars, cancelled, now, svcVars, listVars, idx, tunVars, gate, leaseVars, loopVars >>

\* for lease, machine := range machines: more keys to visit, or "Restart complete"
AfterRestart(m, seen) ==
  IF DOMAIN m \subseteq seen THEN [ pc |-> "done", result |-> "ok" ]
                             ELSE [ pc |-> "cLoop", result |-> "none" ]

ClusterDialerOk(r) ==
  /\ pc[r] = "cDialer"
  /\ CtxLive(r)
  /\ dialers' = [ dialers EXCEPT ![r] = @ + 1 ]
  /\ dialer' = [ dialer EXCEPT ![r] = dialers[r] + 1 ]
  /\ Step(r, AfterRestart(machines[r], iterated[r]))
  /\ UNCHANGED << envVars, cancelled, now, svcVars, listVars, idx, agents, gate, leaseVars, loopVars >>

\* mutation: the restart calls are started without waiting for one another
ClusterRestartIssueParallel(r) ==
  /\ pc[r] = "cLoop"
  /\ \E k \in DOMAIN machines[r] \ iterated[r] :
       /\ iterated' = [ iterated EXCEPT ![r] = @ \union {k} ]
       /\ inflight' = [ inflight EXCEPT ![r] = @ \union { machines[r][k] } ]
       /\ restarts' = [ restarts EXCEPT ![r] = Append(@, machines[r][k]) ]
  /\ usedDialers' = [ usedDialers EXCEPT ![r] = @ \union { dialer[r] } ]
  /\ Goto(r, "cLoop")
  /\ UNCHANGED << envVars, cancelled, now, svcVars, listVars, idx, tunVars, gate, leaseVars, restartFail >>

\* the range loop visits some key not visited yet and calls RestartNodePG;
\* the loop itself never looks at the context
ClusterRestartIssue(r) ==
  /\ pc[r] = "cLoop"
  /\ \E k \in DOMAIN machines[r] \ iterated[r] :
       /\ iterated' = [ iterated EXCEPT ![r] = @ \union {k} ]
       /\ inflight' = [ inflight EXCEPT ![r] = { machines[r][k] } ]
       /\ restarts' = [ restarts EXCEPT ![r] = Append(@, machines[r][k]) ]
  /\ usedDialers' = [ usedDialers EXCEPT ![r] = @ \union { dialer[r] } ]
  /\ Goto(r, "cInflight")
  /\ UNCHANGED << envVars, cancelled, now, svcVars, listVars, idx, tunVars, gate, leaseVars, restartFail >>

\* fmt.Sprintf("[%s]", machine.PrivateIP): the address the client of node n
\* is built from
Address(n) == "[" \o ToString(n) \o "]"

\* the text of the error RestartNodePG returns for node n: the client decides
\* what it says, it may quote the address it was built from or not
Causes(n) == { "restart failed", "request to " \o Address(n) \o " failed" }

\* fmt.Errorf("failed to restart postgres on node: %w", err): the text formats
\* neither machine.ID nor machine.PrivateIP, only the cause the call returned
RestartError(cause) == "failed to restart postgres on node: " \o cause

ClusterRestartOk(r) ==
  /\ pc[r] = "cInflight"
  /\ inflight' = [ inflight EXCEPT ![r] = {} ]
  /\ Step(r, AfterRestart(machines[r], iterated[r]))
  /\ UNCHANGED << envVars, cancelled, now, svcVars, listVars, idx, tunVars, gate, leaseVars, iterated, usedDialers, restarts, restartFail >>

\* mutation: the error of RestartNodePG is dropped and the loop goes on
ClusterRestartErrIgnored(r) ==
  /\ pc[r] = "cInflight"
  /\ restartFail' = [ restartFail EXCEPT ![r] = inflight[r] ]
  /\ inflight' = [ inflight EXCEPT ![r] = {} ]
  /\ Step(r, AfterRestart(machines[r], iterated[r]))
  /\ UNCHANGED << envVars, cancelled, now, svcVars, listVars, idx, tunVars, gate, leaseVars, iterated, usedDialers, restarts >>

ClusterRestartErr(r) ==
  /\ pc[r] = "cInflight"
  /\ restartFail' = [ restartFail EXCEPT ![r] = inflight[r] ]
  /\ inflight' = [ inflight EXCEPT ![r] = {} ]
  /\ \E n \in inflight[r] : \E cause \in Causes(n) : Return(r, RestartError(cause))
  /\ UNCHANGED << envVars, cancelled, now, svcVars, listVars, idx, tunVars, gate, leaseVars, iterated, usedDialers, restarts >>

\* -------------------------------------------------------- restartNomadCluster
StatusErr(r) ==
  /\ pc[r] = "nStatus"
  /\ Return(r, "get app status")
  /\ UNCHANGED << envVars, cancelled, now, svcVars, listVars, idx, tunVars, gate, leaseVars, loopVars >>

\* len(vms) == 0
AfterStatus(o) ==
  IF Len(o) = 0 THEN [ pc |-> "done", result |-> "no vms found" ]
                ELSE [ pc |-> "nAgent", result |-> "none" ]

StatusOk(r) ==
  /\ pc[r] = "nStatus"
  /\ CtxLive(r)
  /\ out' = [ out EXCEPT ![r] = cluster ]
  /\ listed' = [ listed EXCEPT ![r] = TRUE ]
  /\ Step(r, AfterStatus(cluster))
  /\ UNCHANGED << envVars, cancelled, now, svcVars, idx, tunVars, gate, leaseVars, loopVars >>

NomadAgentErr(r) ==
  /\ pc[r] = "nAgent"
  /\ Return(r, "can't establish agent")
  /\ UNCHANGED << envVars, cancelled, now, svcVars, listVars, idx, tunVars, gate, leaseVars, loopVars >>

NomadAgentOk(r) ==
  /\ pc[r] = "nAgent"
  /\ CtxLive(r)
  /\ agents' = [ agents EXCEPT ![r] = @ + 1 ]
  /\ Goto(r, "nDialer")
  /\ UNCHANGED << envVars, cancelled, now, svcVars, listVars, idx, dialer, dialers, gate, leaseVars, loopVars >>

NomadDialerErr(r) ==
  /\ pc[r] = "nDialer"
  /\ Return(r, "can't build tunnel")
  /\ UNCHANGED << envVars, cancelled, now, svcVars, listVars, idx, tunVars, gate, leaseVars, loopVars >>

NomadDialerOk(r) ==
  /\ pc[r] = "nDialer"
  /\ CtxLive(r)
  /\ dialers' = [ dialers EXCEPT ![r] = @ + 1 ]
  /\ dialer' = [ dialer EXCEPT ![r] = dialers[r] + 1 ]
  /\ idx' = [ idx EXCEPT ![r] = 1 ]
  /\ Goto(r, "nLoop")
  /\ UNCHANGED << envVars, cancelled, now, svcVars, listVars, agents, gate, leaseVars, loopVars >>

\* for _, vm := range vms: the next allocation gets RestartNodePG; the loop
\* itself never looks at the context
NomadRestartIssue(r) ==
  /\ pc[r] = "nLoop"
  /\ inflight' = [ inflight EXCEPT ![r] = { out[r][idx[r]] } ]
  /\ restarts' = [ restarts EXCEPT ![r] = Append(@, out[r][idx[r]]) ]
  /\ usedDialers' = [ usedDialers EXCEPT ![r] = @ \union { dialer[r] } ]
  /\ Goto(r, "nInflight")
  /\ UNCHANGED << envVars, cancelled, now, svcVars, listVars, idx, tunVars, gate, leaseVars, iterated, restartFail >>

\* mutation: the loop over vms ends after the first allocation
AfterNomadRestartFirstOnly(o, i) == [ pc |-> "done", result |-> "ok" ]

\* next allocation, or "Restart complete"
AfterNomadRestart(o, i) ==
  IF i < Len(o) THEN [ pc |-> "nLoop", result |-> "none" ]
                ELSE [ pc |-> "done", result |-> "ok" ]

NomadRestartOk(r) ==
  /\ pc[r] = "nInflight"
  /\ inflight' = [ inflight EXCEPT ![r] = {} ]
  /\ idx' = [ idx EXCEPT ![r] = @ + 1 ]
  /\ Step(r, AfterNomadRestart(out[r], idx[r]))
  /\ UNCHANGED << envVars, cancelled, now, svcVars, listVars, tunVars, gate, leaseVars, iterated, usedDialers, restarts, restartFail >>

NomadRestartErr(r) ==
  /\ pc[r] = "nInflight"
  /\ restartFail' = [ restartFail EXCEPT ![r] = inflight[r] ]
  /\ inflight' = [ inflight EXCEPT ![r] = {} ]
  /\ \E n \in inflight[r] : \E cause \in Causes(n) : Return(r, RestartError(cause))
  /\ UNCHANGED << envVars, cancelled, now, svcVars, listVars, idx, tunVars, gate, leaseVars, iterated, usedDialers, restarts >>

\* the clock
Tick ==
  /\ now < MaxTime
  /\ now' = now + TickStep
  /\ UNCHANGED << envVars, cancelled, svcVars, pc, result, listVars, idx, tunVars, gate, leaseVars, loopVars >>

RunStep(r) ==
  \/ Invoke(r)
  \/ GetAppErr(r)
  \/ NotPostgres(r)
  \/ SwitchPlatform(r)
  \/ NomadVersionErr(r)
  \/ NomadVersionOk(r)
  \/ RunAgentErr(r)
  \/ RunAgentOk(r)
  \/ RunDialerErr(r)
  \/ RunDialerOk(r)
  \/ FetchLeaderErr(r)
  \/ FetchLeaderOk(r)
  \/ MachinesVersionErr(r)
  \/ MachinesVersionOk(r)
  \/ FlapsErr(r)
  \/ FlapsOk(r)
  \/ ListErr(r)
  \/ ListOk(r)
  \/ GetLeaseErr(r)
  \/ GetLeaseOk(r)
  \/ ClusterAgentErr(r)
  \/ ClusterAgentOk(r)
  \/ ClusterDialerErr(r)
  \/ ClusterDialerOk(r)
  \/ ClusterRestartIssue(r)
  \/ ClusterRestartOk(r)
  \/ ClusterRestartErr(r)
  \/ StatusErr(r)
  \/ StatusOk(r)
  \/ NomadAgentErr(r)
  \/ NomadAgentOk(r)
  \/ NomadDialerErr(r)
  \/ NomadDialerOk(r)
  \/ NomadRestartIssue(r)
  \/ NomadRestartOk(r)
  \/ NomadRestartErr(r)
  \/ Cancel(r)

\* one operator: a single invocation of the command, alone on the app
FirstRun == CHOOSE r \in Runs : \A q \in Runs : r <= q

Next ==
  \/ RunStep(FirstRun)
  \/ Tick

Spec == Init /\ [][Next]_vars

\* independent operators: invocations that may overlap on the same app
NextOverlap ==
  \/ \E r \in Runs : RunStep(r)
  \/ Tick

SpecOverlap == Init /\ [][NextOverlap]_vars

\* one operator invoking the command again and again: an invocation starts
\* only once the one before it has returned
NextSuccession ==
  \/ \E r \in Runs : (pc[r] = "idle" => \A q \in Runs : q < r => pc[q] = "done") /\ RunStep(r)
  \/ Tick

SpecSuccession == Init /\ [][NextSuccession]_vars

\* ------------------------------------------------------------------ claims
Leased == app.platform = "machines"
Legacy == app.platform = "nomad"
Failed(r) == pc[r] = "done" /\ result[r] \notin { "none", "ok" }
Succeeded(r) == pc[r] = "done" /\ result[r] = "ok"
Last(s) == s[Len(s)]

\* C1: in the leased variant no restart command is sent to any node while some
\* listed node has not had its lease acquired.
C1_LeasesBeforeRestart ==
  \A r \in Runs : (Leased /\ restarts[r] # << >>) => Range(out[r]) \subseteq Range(leases[r])

\* the first restart command of a leased run over at least two machines is in flight
C1_Witness ==
  \E r \in Runs : Leased /\ Len(out[r]) >= 2 /\ Len(restarts[r]) = 1 /\ inflight[r] # {}

\* C2: when lease acquisition fails for a node, the run reports failure and no
\* restart command is sent to any node, the nodes already leased included.
C2_LeaseFailureAborts ==
  \A r \in Runs : leaseFail[r] # {} => Failed(r) /\ restarts[r] = << >> /\ inflight[r] = {}

\* a lease is refused after another node of the run has granted one
C2_Witness ==
  \E r \in Runs : leaseFail[r] # {} /\ Len(leases[r]) >= 1 /\ pc[r] = "done"

\* C3: a successful leased run over N nodes acquired exactly N leases and sent
\* exactly N restart commands, one per distinct node, none twice.
C3_OneLeaseOneRestartPerNode ==
  \A r \in Runs : (Leased /\ Succeeded(r)) =>
    /\ Len(leases[r]) = Len(out[r])
    /\ Range(leases[r]) = Range(out[r])
    /\ Len(restarts[r]) = Len(out[r])
    /\ Range(restarts[r]) = Range(out[r])
    /\ Cardinality(Range(restarts[r])) = Len(restarts[r])

\* a leased run over at least two machines has succeeded
C3_Witness ==
  \E r \in Runs : Leased /\ Succeeded(r) /\ Len(out[r]) >= 2

\* C4: in both variants, when the restart command of a node fails the run ends
\* with an error and that command is the last one the run ever sends.
C4_FailFast ==
  \A r \in Runs : restartFail[r] # {} =>
    /\ Failed(r)
    /\ inflight[r] = {}
    /\ restarts[r] # << >>
    /\ restartFail[r] = { Last(restarts[r]) }
    /\ Legacy => restarts[r] = SubSeq(out[r], 1, Len(restarts[r]))
    /\ Cardinality(Range(restarts[r])) = Len(restarts[r])

\* the second of three nodes failed, the third is left without a command
C4_Witness ==
  \E r \in Runs : restartFail[r] # {} /\ Len(out[r]) = 3 /\ Len(restarts[r]) = 2 /\ pc[r] = "done"

\* C5: whenever a leased run sends a restart command to a node, the lease the
\* run acquired on that node has not expired.
C5_RestartUnderLiveLease ==
  [][ \A r \in Runs : (Leased /\ restarts'[r] # restarts[r]) => (\A n \in inflight'[r] : HoldsLiveLease(r, n)) ]_vars

\* C6: no node is sent a restart command by one leased run while another run
\* in progress is in its restart phase on the same cluster.
C6_NoOverlappingRestartPhases ==
  \A r1, r2 \in Runs :
    (Leased /\ r1 # r2 /\ inflight[r1] # {}) => pc[r2] \notin { "cLoop", "cInflight" }

NoNodesErrors == { "no machines found", "no vms found" }

\* C7 as stated: a run whose listing is empty fails with the no-nodes error and
\* has acquired no lease and established no tunnel (agent, dialer), in either variant.
C7_EmptyNoLeaseNoTunnel ==
  \A r \in Runs : (listed[r] /\ out[r] = << >>) =>
    /\ Failed(r) /\ result[r] \in NoNodesErrors
    /\ leaseReq[r] = << >>
    /\ agents[r] = 0 /\ dialers[r] = 0

\* C7 amended: a run whose listing is empty fails with the no-nodes error and
\* has requested no lease; the legacy variant has established no tunnel, the
\* leased variant only the one runRestart opened before the listing.
C7_EmptyNoLeaseNoNewTunnel ==
  \A r \in Runs : (listed[r] /\ out[r] = << >>) =>
    /\ Failed(r) /\ result[r] \in NoNodesErrors
    /\ leaseReq[r] = << >> /\ restarts[r] = << >>
    /\ Legacy => agents[r] = 0 /\ dialers[r] = 0
    /\ Leased => agents[r] = 1 /\ dialers[r] = 1

\* a leased run has listed an empty set of machines
C7_Witness ==
  \E r \in Runs : Leased /\ listed[r] /\ out[r] = << >> /\ pc[r] = "done"

\* C8 as stated: when the version gate fails, no lease has been requested and no
\* tunnel has been established, in either variant.
C8_GateBeforeLeaseAndTunnel ==
  \A r \in Runs : gate[r] = "fail" => leaseReq[r] = << >> /\ agents[r] = 0 /\ dialers[r] = 0

\* C8 amended: when the version gate fails the run ends there: nothing is
\* listed and no lease is requested; the legacy variant has established no
\* tunnel, the leased variant exactly the one it fetched the leader through.
C8_GateBeforeLeaseAndRestartTunnel ==
  \A r \in Runs : gate[r] = "fail" =>
    /\ Failed(r) /\ result[r] = "version"
    /\ ~listed[r] /\ leaseReq[r] = << >>
    /\ Legacy => agents[r] = 0 /\ dialers[r] = 0
    /\ Leased => agents[r] = 1 /\ dialers[r] = 1

\* the version gate of a leased run over a non-empty cluster has failed
C8_Witness ==
  \E r \in Runs : Leased /\ gate[r] = "fail" /\ cluster # << >> /\ dialer[r] = 1

\* C9: when the version check fails the run aborts and no restart command is
\* sent to any node.
C9_GateFailureNoRestart ==
  \A r \in Runs : gate[r] = "fail" => Failed(r) /\ restarts[r] = << >> /\ inflight[r] = {}

\* the version gate of a legacy run over a non-empty cluster has failed
C9_Witness ==
  \E r \in Runs : Legacy /\ gate[r] = "fail" /\ cluster # << >> /\ pc[r] = "done"

\* C10: a run establishes one tunnel (agent connection and dialer), never a
\* second, and every restart call of the run goes through that tunnel.
C10_OneTunnelPerRun ==
  \A r \in Runs :
    /\ agents[r] <= 1 /\ dialers[r] <= 1
    /\ restarts[r] # << >> => agents[r] = 1 /\ dialers[r] = 1 /\ Cardinality(usedDialers[r]) = 1

\* C11: of two leased runs in immediate succession on a healthy cluster (the
\* second invoked once the first has succeeded, no time having passed), the
\* second is granted every lease it asks for, so that it succeeds too, and the
\* lease tokens of the two runs are disjoint.
C11_SecondRunGranted ==
  \A r1, r2 \in Runs : (Leased /\ r1 < r2 /\ Succeeded(r1) /\ now = 0) =>
    /\ DOMAIN machines[r1] \cap DOMAIN machines[r2] = {}
    /\ pc[r2] = "cLease" => ~LeaseLive(out[r2][idx[r2]])

\* C12: at every point of a run at most one node has a restart command in
\* flight, and it is the node of the command sent last.
C12_OneRestartInFlight ==
  \A r \in Runs :
    /\ Cardinality(inflight[r]) <= 1
    /\ inflight[r] # {} => pc[r] \in { "cInflight", "nInflight" } /\ inflight[r] = { Last(restarts[r]) }
    /\ pc[r] \in { "cInflight", "nInflight" } => inflight[r] # {}

\* a second restart command is in flight, the first having returned
C12_Witness ==
  \E r \in Runs : inflight[r] # {} /\ Len(restarts[r]) = 2 /\ Len(out[r]) >= 2

\* the outcome of node n in run r, read off the commands sent
Outcome(r, n) ==
  IF n \in restartFail[r] THEN "Failed"
  ELSE IF n \in Range(restarts[r]) \ inflight[r] THEN "Succeeded"
  ELSE "Skipped"

\* C13: when the restart command of a node fails the run reports failure, the
\* error returned tells which node failed (a failure of any other listed node
\* would have returned another error), the nodes restarted before it are
\* Succeeded and the nodes after it Skipped.
C13_ErrorNamesFailedNode ==
  \A r \in Runs : \A n \in restartFail[r] :
    /\ Failed(r)
    /\ Outcome(r, n) = "Failed"
    /\ \A i \in 1..(Len(restarts[r]) - 1) : Outcome(r, restarts[r][i]) = "Succeeded"
    /\ \A m \in Range(out[r]) \ Range(restarts[r]) : Outcome(r, m) = "Skipped"
    /\ \A m \in Range(out[r]) \ {n} : \A cause \in Causes(m) : result[r] # RestartError(cause)

\* the phase of a run
Phase(r) ==
  CASE pc[r] = "idle" -> "Idle"
    [] pc[r] = "getApp" -> "Starting"
    [] pc[r] \in { "nVersion", "mLeader", "mVersion" } -> "Gating"
    [] pc[r] \in { "nStatus", "cFlaps", "cList" } -> "Resolving"
    [] pc[r] = "cLease" -> "LeaseAcquiring"
    [] pc[r] \in { "mAgent", "mDialer", "cAgent", "cDialer", "nAgent", "nDialer" } -> "TunnelEstablishing"
    [] pc[r] \in { "cLoop", "cInflight", "nLoop", "nInflight" } -> "Restarting"
    [] pc[r] = "done" /\ result[r] = "ok" -> "Completed"
    [] OTHER -> "Aborted"

\* C14 as stated: Resolving, Gating, LeaseAcquiring (leased only),
\* TunnelEstablishing, Restarting, Completed, in this order
StatedOrder ==
  { << "Idle", "Starting" >>, << "Starting", "Resolving" >>, << "Resolving", "Gating" >>,
    << "Gating", "LeaseAcquiring" >>, << "Gating", "TunnelEstablishing" >>,
    << "LeaseAcquiring", "TunnelEstablishing" >>, << "TunnelEstablishing", "Restarting" >>,
    << "Restarting", "Completed" >> }

\* the order the legacy variant takes
LegacyOrder ==
  { << "Idle", "Starting" >>, << "Starting", "Gating" >>, << "Gating", "Resolving" >>,
    << "Resolving", "TunnelEstablishing" >>, << "TunnelEstablishing", "Restarting" >>,
    << "Restarting", "Completed" >> }

\* the order the leased variant takes
LeasedOrder ==
  { << "Idle", "Starting" >>, << "Starting", "TunnelEstablishing" >>, << "TunnelEstablishing", "Gating" >>,
    << "Gating", "Resolving" >>, << "Resolving", "LeaseAcquiring" >>,
    << "LeaseAcquiring", "TunnelEstablishing" >>, << "TunnelEstablishing", "Restarting" >>,
    << "Restarting", "Completed" >> }

\* a backend kind that is neither: the run completes at once
OtherOrder == { << "Idle", "Starting" >>, << "Starting", "Completed" >> }

ActualOrder == IF Legacy THEN LegacyOrder ELSE IF Leased THEN LeasedOrder ELSE OtherOrder

\* C14 as stated: every run of either variant moves through Resolving, Gating,
\* LeaseAcquiring (leased only), TunnelEstablishing, Restarting, Completed in
\* this order, the only other move being to Aborted.
C14_StatedPhaseOrder ==
  [][ \A r \in Runs : (Leased \/ Legacy) =>
        \/ Phase(r)' = Phase(r)
        \/ Phase(r)' = "Aborted"
        \/ << Phase(r), Phase(r)' >> \in StatedOrder ]_vars

\* C14 amended: a legacy run moves Gating, Resolving, TunnelEstablishing,
\* Restarting, Completed; a leased run moves TunnelEstablishing, Gating,
\* Resolving, LeaseAcquiring, TunnelEstablishing (after the gate has passed),
\* Restarting, Completed; a run of another backend kind completes at once;
\* the only other move is from a phase in progress to Aborted.
C14_ActualPhaseOrder ==
  [][ \A r \in Runs :
        \/ Phase(r)' = Phase(r)
        \/ Phase(r)' = "Aborted" /\ Phase(r) \notin { "Idle", "Completed" }
        \/ /\ << Phase(r), Phase(r)' >> \in ActualOrder
           /\ Phase(r)' = "Restarting" => gate'[r] = "pass" /\ listed'[r]
           /\ Phase(r)' = "Gating" => gate'[r] = "none" /\ ~listed'[r]
           /\ Phase(r)' = "Resolving" => gate'[r] = "pass" /\ ~listed'[r] ]_vars

\* a legacy run over a non-empty cluster has gone through every phase
C14_Witness ==
  \E r \in Runs : Legacy /\ Phase(r) = "Completed" /\ restarts[r] # << >> /\ gate[r] = "pass"

\* the lease phase of a leased run is over and no lease was refused
LeasePhaseDone(r) ==
  Leased /\ listed[r] /\ out[r] # << >> /\ pc[r] # "cLease" /\ leaseFail[r] = {}

\* C15: once the lease phase of a leased run has ended without error, the map
\* of lease token to machine holds one entry per listed machine, each token
\* with the machine its lease was granted for; no listed machine is missing.
C15_LeaseMapCoversListing ==
  \A r \in Runs : LeasePhaseDone(r) =>
    /\ Cardinality(DOMAIN machines[r]) = Len(out[r])
    /\ { machines[r][k] : k \in DOMAIN machines[r] } = Range(out[r])
    /\ \A k \in DOMAIN machines[r] :
         lease[machines[r][k]].nonce = k /\ lease[machines[r][k]].holder = r

\* the lease phase over at least two machines has just ended
C15_Witness ==
  \E r \in Runs : LeasePhaseDone(r) /\ pc[r] = "cAgent" /\ Len(out[r]) >= 2

NoDuplicates(q) == \A i, j \in DOMAIN q : q[i] = q[j] => i = j

\* C16: no error is retried: any failure ends the run with an error, and
\* within a run no node is asked for a lease twice or sent a restart command twice.
C16_NoRetry ==
  \A r \in Runs :
    /\ (leaseFail[r] # {} \/ restartFail[r] # {} \/ gate[r] = "fail" \/ result[r] \notin { "none", "ok" }) => Failed(r)
    /\ NoDuplicates(leaseReq[r]) /\ NoDuplicates(restarts[r])
    /\ Cardinality(leaseFail[r]) <= 1 /\ Cardinality(restartFail[r]) <= 1
    /\ Len(leaseReq[r]) <= Len(leases[r]) + 1

\* the tunnel of the restart phase failed after two leases had been granted
C16_Witness ==
  \E r \in Runs : Failed(r) /\ result[r] = "can't build tunnel" /\ Len(leases[r]) >= 2

\* C18: the legacy variant acquires no lease at any point, and sends restart
\* commands to the allocations in the order the inventory returned them, each
\* once, until all are done or one fails.
C18_LegacyInventoryOrder ==
  \A r \in Runs : Legacy =>
    /\ leaseReq[r] = << >> /\ leases[r] = << >> /\ DOMAIN machines[r] = {}
    /\ \A n \in Nodes : lease[n] = NoLease
    /\ Len(restarts[r]) <= Len(out[r])
    /\ restarts[r] = SubSeq(out[r], 1, Len(restarts[r]))
    /\ Succeeded(r) => restarts[r] = out[r]
    /\ (pc[r] = "done" /\ dialer[r] # 0) => (restarts[r] = out[r] \/ restartFail[r] # {})

\* a legacy run has restarted an inventory that is not in ascending order
C18_Witness ==
  \E r \in Runs : Legacy /\ Succeeded(r) /\ Len(out[r]) >= 2 /\ out[r][1] > out[r][2]

\* C19: for a Postgres app whose backend kind is neither nomad nor machines,
\* a run checks no version, acquires no lease, establishes no tunnel, sends
\* no restart command, and returns nil.
C19_OtherBackendNoop ==
  \A r \in Runs : (app.postgres /\ app.platform \notin { "nomad", "machines" }) =>
    /\ gate[r] = "none" /\ ~listed[r]
    /\ leaseReq[r] = << >> /\ \A n \in Nodes : lease[n] = NoLease
    /\ agents[r] = 0 /\ dialers[r] = 0 /\ usedDialers[r] = {}
    /\ restarts[r] = << >> /\ inflight[r] = {}
    /\ pc[r] \in { "idle", "getApp", "done" }
    /\ (pc[r] = "done" /\ result[r] # "get app") => result[r] = "ok"

\* a run on a Postgres app of another backend kind has returned nil
C19_Witness ==
  \E r \in Runs : app.postgres /\ app.platform = "other" /\ cluster # << >> /\ Succeeded(r)

=============================================================================
